---------------------------- MODULE Spec2Model ----------------------------
(***************************************************************************)
(* A model of src/app.py: the punching-shear critical-section generator    *)
(* (generate_critical_section), the line-integral property calculator      *)
(* (calculate_section_properties) and the script that drives them from the *)
(* Streamlit session state.                                                *)
(*                                                                         *)
(* Numbers.  The program computes with Python floats.  The model computes  *)
(* with exact real numbers of the field Q(sqrt 2): every column dimension, *)
(* offset and depth is a decimal fraction, every segment of the modelled   *)
(* polylines is horizontal, vertical or at 45 degrees, so every length is  *)
(* p or p*sqrt(2) with p rational and every quantity up to Jcx, Jcy, Jxy   *)
(* stays in the field.  Rounding of IEEE doubles is not modelled.  The one *)
(* square root that leaves the field, radius = sqrt(diff_J^2 + Jxy^2), is  *)
(* carried as the pair of its legs and compared exactly by squaring.       *)
(*                                                                         *)
(* TLC's integers are 32 bits wide and the exact numerators and            *)
(* denominators are not (those of Jcx for the default inputs have about 80 *)
(* digits), so integers are sequences of base-1000 limbs.                  *)
(***************************************************************************)
EXTENDS Integers, Sequences, FiniteSets, TLC

(***************************************************************************)
(* Integers of any size.  An integer is the sequence of its base-1000      *)
(* limbs, least significant first: every limb but the last is in 0..999,   *)
(* the last one is in -1000..999 and is not 0 (a negative last limb makes  *)
(* the integer negative), and a last limb of -1 stands alone.  <<>> is 0.  *)
(* Every integer has one such sequence, so integers compare with =.        *)
(***************************************************************************)
Base == 10 * 100

One == <<1>>

MaxOf(i, j) == IF i >= j THEN i ELSE j

MinOf(i, j) == IF i <= j THEN i ELSE j

\* the column t as one limb and a carry
Digit(t) == [limbs |-> <<t % Base>>, cout |-> t \div Base]

WithRest(left, right) ==
  [limbs |-> left.limbs \o right.limbs, cout |-> right.cout]

RECURSIVE CarryBlock(_, _, _, _)
RECURSIVE Joined(_, _, _, _)
\* The columns col[lo..hi] with the carry cin added at lo, as limbs in 0..999
\* and the carry out of hi.  Halving keeps the evaluation shallow.
CarryBlock(col, lo, hi, cin) ==
  IF lo > hi THEN [limbs |-> <<>>, cout |-> cin]
  ELSE IF lo = hi
  THEN Digit(col[lo] + cin)
  ELSE Joined(CarryBlock(col, lo, (lo + hi) \div 2, cin), col, (lo + hi) \div 2 + 1, hi)

\* the block left, then the block col[lo..hi] carried on from it
Joined(left, col, lo, hi) ==
  WithRest(left, CarryBlock(col, lo, hi, left.cout))

RECURSIVE FromInt(_)
\* the limbs of a TLC integer
FromInt(n) ==
  IF n = 0 THEN <<>>
  ELSE IF n < 0 /\ n >= -Base THEN <<n>>
  ELSE <<n % Base>> \o FromInt(n \div Base)

\* the greatest index of x that holds a limb other than skip, 0 if none does
TopOther(x, n, skip) ==
  IF \A i \in 1..n : x[i] = skip THEN 0
  ELSE CHOOSE i \in 1..n : x[i] # skip /\ \A j \in (i + 1)..n : x[j] = skip

\* limbs 1..k of x with Base taken off limb k: the integer x[1..k] - Base^k
Borrowed(x, k) ==
  IF k = 0 THEN <<-1>>
  ELSE SubSeq(x, 1, k - 1) \o <<x[k] - Base>>

\* limbs 1..top of x, a leading -1 folded into the limb below it
Folded(x, top) ==
  IF top = 0 THEN <<>>
  ELSE IF x[top] # -1 THEN SubSeq(x, 1, top)
  ELSE Borrowed(x, TopOther(x, top - 1, Base - 1))

\* the integer with the limbs x, as its one sequence
Trim(x) == Folded(x, TopOther(x, Len(x), 0))

\* the integer whose columns (any integers) are col[1..n]
WithCarryOut(r) == r.limbs \o FromInt(r.cout)

Norm(col, n) == Trim(WithCarryOut(CarryBlock(col, 1, n, 0)))

RECURSIVE ColSum(_, _, _, _, _)
\* the sum of x[i] * y[k + 1 - i] for i in lo..hi
ColSum(x, y, k, lo, hi) ==
  IF lo > hi THEN 0
  ELSE IF lo = hi THEN x[lo] * y[k + 1 - lo]
  ELSE ColSum(x, y, k, lo, (lo + hi) \div 2)
       + ColSum(x, y, k, (lo + hi) \div 2 + 1, hi)

\* column k of the product x * y
Conv(x, y, k) == ColSum(x, y, k, MaxOf(1, k + 1 - Len(y)), MinOf(k, Len(x)))

Columns(x, p, c, y, q, n) == Norm([k \in 1..n |-> Conv(x, p, k) + c * Conv(y, q, k)], n)

\* x * p + c * y * q for integers x, p, y, q and a TLC integer c in -2..2
ILin(x, p, c, y, q) == Columns(x, p, c, y, q, MaxOf(Len(x) + Len(p), Len(y) + Len(q)))

IAdd(x, y) == ILin(x, One, 1, y, One)

INeg(x) == ILin(<<>>, <<>>, -1, x, One)

IMul(x, y) == ILin(x, y, 1, <<>>, <<>>)

\* -1, 0 or 1
ISign(x) == IF x = <<>> THEN 0 ELSE IF x[Len(x)] > 0 THEN 1 ELSE -1

RECURSIVE TimesPower(_, _, _)
\* v * f^n for a TLC integer f in 1..999
TimesPower(v, f, n) ==
  IF n = 0 \/ v = <<>> THEN v ELSE TimesPower(IMul(v, <<f>>), f, n - 1)

(***************************************************************************)
(* The program's numbers (Python floats, read as exact reals).  The record *)
(* [c, e, m] is (c[1] + c[2]*sqrt(2)) / (60^e * m): c[1], c[2] and m > 0   *)
(* are integers as above, e is a TLC integer.  Fractions are not reduced,  *)
(* so one real has many records: numbers are compared with Eq, Lt, Sign    *)
(* and IsZero, never with =.                                               *)
(***************************************************************************)
\* the pair <<f[1], f[2]>> of a function f on 1..2
Pair(f) == <<f[1], f[2]>>

Sixty == 6 * 10

Num(n) == [c |-> <<FromInt(n), <<>>>>, e |-> 0, m |-> One]

\* the decimal literal n / 10^k
Dec(n, k) == [c |-> <<TimesPower(FromInt(n), 6, k), <<>>>>, e |-> k, m |-> One]

\* what the numerators of x are multiplied by to bring x and y to one
\* denominator
Factor(x, y) ==
  TimesPower(IF x.m = y.m THEN One ELSE y.m, Sixty, MaxOf(x.e, y.e) - x.e)

\* the common denominator 60^e * m of x and y, and the factors fx and fy
\* that bring the numerators of x and of y to it
Common(x, y) ==
  [e |-> MaxOf(x.e, y.e),
   m |-> IF x.m = y.m THEN x.m ELSE IMul(x.m, y.m),
   fx |-> Factor(x, y),
   fy |-> Factor(y, x)]

\* x + sg * y over the common denominator k
Combined(x, sg, y, k) ==
  [e |-> k.e,
   m |-> k.m,
   c |-> Pair([i \in 1..2 |-> ILin(x.c[i], k.fx, sg, y.c[i], k.fy)])]

Combine(x, sg, y) == Combined(x, sg, y, Common(x, y))

\* float + float
Add(x, y) == Combine(x, 1, y)

\* float - float
Sub(x, y) == Combine(x, -1, y)

\* -float
Neg(x) == [x EXCEPT !.c = Pair([k \in 1..2 |-> INeg(x.c[k])])]

\* float * float
Mul(x, y) ==
  [e |-> x.e + y.e,
   m |-> IMul(x.m, y.m),
   c |-> Pair([k \in 1..2 |->
            ILin(x.c[1], y.c[k], IF k = 1 THEN 2 ELSE 1, x.c[2], y.c[3 - k])])]

\* float ** 2
Sqr(x) == Mul(x, x)

\* x / y for y = (u + v*sqrt(2)) / (60^e * m) with norm n = u^2 - 2*v^2:
\* x * (u - v*sqrt(2)) * 60^e * m / n
Rationalised(x, y, n) ==
  [e |-> x.e,
   m |-> IMul(x.m, IF ISign(n) < 0 THEN INeg(n) ELSE n),
   c |-> Pair([k \in 1..2 |->
            IMul(ILin(x.c[k], y.c[1], IF k = 1 THEN -2 ELSE -1, x.c[3 - k], y.c[2]),
                 TimesPower(IF ISign(n) < 0 THEN INeg(y.m) ELSE y.m, Sixty, y.e))])]

\* float / float, for a divisor that is not 0.  Division by the literals 2,
\* 3 and 6 keeps the denominator a power of 60.
Div(x, y) ==
  IF y.c[2] = <<>> /\ y.m = One /\ y.e = 0 /\ y.c[1] \in {<<2>>, <<3>>, <<6>>}
  THEN [e |-> x.e + 1, m |-> x.m,
        c |-> Pair([k \in 1..2 |-> IMul(x.c[k], <<Sixty \div y.c[1][1]>>)])]
  ELSE Rationalised(x, y, ILin(y.c[1], y.c[1], -2, y.c[2], y.c[2]))

\* the sign of u + v*sqrt(2), given the signs su of u and sv of v
SignOf(u, su, v, sv) ==
  IF sv = 0 \/ su = sv THEN su
  ELSE IF su = 0 THEN sv
  ELSE su * ISign(ILin(u, u, -2, v, v))

\* the sign of a float: -1, 0 or 1
Sign(x) == SignOf(x.c[1], ISign(x.c[1]), x.c[2], ISign(x.c[2]))

IsZero(x) == x.c[1] = <<>> /\ x.c[2] = <<>>

Eq(x, y) == IsZero(Sub(x, y))

Lt(x, y) == Sign(Sub(x, y)) < 0

Leq(x, y) == Sign(Sub(x, y)) <= 0

\* abs(float)
Abs(x) == IF Sign(x) < 0 THEN Neg(x) ELSE x

\* float * sqrt(2)
TimesSqrt2(x) == [x EXCEPT !.c = <<IAdd(x.c[2], x.c[2]), x.c[1]>>]

\* a faulty line 73 that leaves (y2 - y1)**2 out of the length
HorizontalLength(u, v) == Abs(u)

\* math.sqrt(u**2 + v**2) for a horizontal, vertical or 45-degree (u, v); the
\* modelled polylines have no other segments.
Hypot(u, v) ==
  CASE IsZero(v) -> Abs(u)
    [] IsZero(u) -> Abs(v)
    [] ~IsZero(u) /\ ~IsZero(v) /\ (IsZero(Add(u, v)) \/ IsZero(Sub(u, v))) ->
         TimesSqrt2(Abs(u))

\* the greater of two floats, as max() keeps the first of two equal ones
Greater(l, r) == IF Lt(l, r) THEN r ELSE l

\* the smaller of two floats
Smaller(l, r) == IF Lt(r, l) THEN r ELSE l

RECURSIVE MaxNum(_, _, _)
\* max(xs[lo..hi]), by halves
MaxNum(xs, lo, hi) ==
  IF lo = hi THEN xs[lo]
  ELSE Greater(MaxNum(xs, lo, (lo + hi) \div 2),
               MaxNum(xs, (lo + hi) \div 2 + 1, hi))

RECURSIVE MinNum(_, _, _)
\* min(xs[lo..hi]), by halves
MinNum(xs, lo, hi) ==
  IF lo = hi THEN xs[lo]
  ELSE Smaller(MinNum(xs, lo, (lo + hi) \div 2),
               MinNum(xs, (lo + hi) \div 2 + 1, hi))

\* TLC evaluates an operator's arguments only when they are used; a loop
\* that names its accumulator here computes each iteration's values in that
\* iteration, as Python does.  Always TRUE.
Computed(v) == v = v

(***************************************************************************)
(* Square roots and angles that leave the field.                           *)
(*   A root [u, v] is math.sqrt(u**2 + v**2).                              *)
(*   A surd [base, sg, root] is base + sg * root.                          *)
(*   An angle in radians is [exact |-> TRUE, val], that is val * pi, or    *)
(*   [exact |-> FALSE, scale, y, x], that is scale * atan2(y, x).          *)
(*   math.degrees multiplies val or scale by 180: the angle is then val    *)
(*   degrees, or scale * atan2(y, x) / pi degrees.                         *)
(***************************************************************************)
RootSumSq(u, v) == [u |-> u, v |-> v]

PlusRoot(x, r) == [base |-> x, sg |-> 1, root |-> r]

MinusRoot(x, r) == [base |-> x, sg |-> -1, root |-> r]

ExactAngle(v) == [exact |-> TRUE, val |-> v]

\* math.pi, in units of pi
pi == Num(1)

\* pi / 2 with the sign sg
SignedHalfPi(sg) == ExactAngle(IF sg > 0 THEN Div(pi, Num(2)) ELSE Div(Neg(pi), Num(2)))

\* math.atan(y / x) in the place of math.atan2(y, x): it has no branch for a
\* zero y and a negative x
atan_of_quotient(y, x) ==
  CASE IsZero(y) -> ExactAngle(Num(0))
    [] ~IsZero(y) /\ IsZero(x) -> SignedHalfPi(Sign(y))
    [] ~IsZero(y) /\ ~IsZero(x) ->
         [exact |-> FALSE, scale |-> Num(1), y |-> y, x |-> x]

\* math.atan2(y, x) for (y, x) other than (0, 0).  The program calls it with
\* y = -2*Jxy_c only; Jxy_c is a sum started at 0, so a zero Jxy_c is +0.0,
\* y is then -0.0, and atan2(-0.0, x) is -0.0 for x > 0 and -pi for x < 0.
atan2(y, x) ==
  CASE IsZero(y) /\ Sign(x) > 0 -> ExactAngle(Num(0))
    [] IsZero(y) /\ Sign(x) < 0 -> ExactAngle(Neg(pi))
    [] ~IsZero(y) /\ IsZero(x) -> SignedHalfPi(Sign(y))
    [] ~IsZero(y) /\ ~IsZero(x) ->
         [exact |-> FALSE, scale |-> Num(1), y |-> y, x |-> x]

\* c * angle
ScaleAngle(c, ang) ==
  IF ang.exact THEN ExactAngle(Mul(c, ang.val))
  ELSE [ang EXCEPT !.scale = Mul(c, @)]

\* math.degrees(angle): the result is a number of degrees
degrees(ang) == ScaleAngle(Num(180), ang)

(***************************************************************************)
(* 1. CORE CALCULATION ENGINE: calculate_section_properties(points, d).    *)
(* points is a sequence of pairs <<x, y>>.  A value the program computes   *)
(* once and uses several times is handed on as an operator's parameter.    *)
(***************************************************************************)
\* the failure value of calculate_section_properties
None == [none |-> TRUE]

\* a faulty line 74 that skips no segment
NeverSkip(l) == FALSE

\* line 74: if l == 0: continue
SkipSegment(l) == IsZero(l)

\* lines 76-77 and the dictionary of line 82
Segment(x1, y1, x2, y2, l) ==
  [p1 |-> <<x1, y1>>, p2 |-> <<x2, y2>>, l |-> l,
   xm |-> Div(Add(x1, x2), Num(2)), ym |-> Div(Add(y1, y2), Num(2))]

\* lines 79-82
WithSegment(acc, seg) ==
  [total_length |-> Add(acc.total_length, seg.l),
   sum_mx |-> Add(acc.sum_mx, Mul(seg.l, seg.ym)),
   sum_my |-> Add(acc.sum_my, Mul(seg.l, seg.xm)),
   segments |-> Append(acc.segments, seg)]

\* lines 73-82
Measured(acc, x1, y1, x2, y2, l) ==
  IF Computed(acc) /\ SkipSegment(l) THEN acc
  ELSE WithSegment(acc, Segment(x1, y1, x2, y2, l))

\* lines 71-73
Between(acc, x1, y1, x2, y2) ==
  Measured(acc, x1, y1, x2, y2, Hypot(Sub(x2, x1), Sub(y2, y1)))

\* 1.1 one iteration of the loop of lines 70-82, on the pair (points[i],
\* points[i+1]) (i counts from 1); acc holds total_length, sum_mx, sum_my and
\* segments.
PerimeterStep(points, i, acc) ==
  Between(acc, points[i][1], points[i][2], points[i + 1][1], points[i + 1][2])

RECURSIVE PerimeterLoop(_, _, _, _)
RECURSIVE PerimeterRest(_, _, _, _)
\* the iterations lo..hi of the loop, in order, by halves
PerimeterLoop(points, lo, hi, acc) ==
  IF lo > hi THEN acc
  ELSE IF lo = hi THEN PerimeterStep(points, lo, acc)
  ELSE PerimeterRest(points, (lo + hi) \div 2 + 1, hi,
                     PerimeterLoop(points, lo, (lo + hi) \div 2, acc))

PerimeterRest(points, lo, hi, first) ==
  IF Computed(first) THEN PerimeterLoop(points, lo, hi, first) ELSE first

\* lines 110-111 and 113-114, Eq B.8 / B.9: d * (l/3) * (p**2 + p*q + q**2)
SecondMoment(d, l, p, q) ==
  Mul(Mul(d, Div(l, Num(3))), Add(Add(Sqr(p), Mul(p, q)), Sqr(q)))

\* lines 116-117, Eq B.11: d * (l/6) * (2*x1*y1 + x1*y2 + x2*y1 + 2*x2*y2)
ProductMoment(d, l, x1, y1, x2, y2) ==
  Mul(Mul(d, Div(l, Num(6))),
      Add(Add(Add(Mul(Mul(Num(2), x1), y1), Mul(x1, y2)), Mul(x2, y1)),
          Mul(Mul(Num(2), x2), y2)))

\* lines 104-117
Shifted(acc, d, l, x1_p, y1_p, x2_p, y2_p) ==
  IF Computed(acc)
  THEN [x_shifted_all |-> acc.x_shifted_all \o <<x1_p, x2_p>>,
        y_shifted_all |-> acc.y_shifted_all \o <<y1_p, y2_p>>,
        Jcx_c |-> Add(acc.Jcx_c, SecondMoment(d, l, y1_p, y2_p)),
        Jcy_c |-> Add(acc.Jcy_c, SecondMoment(d, l, x1_p, x2_p)),
        Jxy_c |-> Add(acc.Jxy_c, ProductMoment(d, l, x1_p, y1_p, x2_p, y2_p))]
  ELSE acc

\* faulty lines 100-103 that leave the coordinates unshifted
UnshiftedStep(seg, x_bar, y_bar, d, acc) ==
  Shifted(acc, d, seg.l, seg.p1[1], seg.p1[2], seg.p2[1], seg.p2[2])

\* 1.2 one iteration of the loop of lines 98-117, on seg; acc holds Jcx_c,
\* Jcy_c, Jxy_c, x_shifted_all and y_shifted_all.
InertiaStep(seg, x_bar, y_bar, d, acc) ==
  Shifted(acc, d, seg.l, Sub(seg.p1[1], x_bar), Sub(seg.p1[2], y_bar),
          Sub(seg.p2[1], x_bar), Sub(seg.p2[2], y_bar))

RECURSIVE InertiaLoop(_, _, _, _, _, _, _)
RECURSIVE InertiaRest(_, _, _, _, _, _, _)
\* the iterations lo..hi of the loop, in order, by halves
InertiaLoop(segments, lo, hi, x_bar, y_bar, d, acc) ==
  IF lo > hi THEN acc
  ELSE IF lo = hi THEN InertiaStep(segments[lo], x_bar, y_bar, d, acc)
  ELSE InertiaRest(segments, (lo + hi) \div 2 + 1, hi, x_bar, y_bar, d,
                   InertiaLoop(segments, lo, (lo + hi) \div 2, x_bar, y_bar, d, acc))

InertiaRest(segments, lo, hi, x_bar, y_bar, d, first) ==
  IF Computed(first)
  THEN InertiaLoop(segments, lo, hi, x_bar, y_bar, d, first)
  ELSE first

\* the two tolerances 1e-6 of line 133 and line 134
Tol == Dec(1, 6)

\* a faulty line 128 that leaves Jxy_c out of the radius
RadiusOfDifference(diff_J, Jxy_c) == RootSumSq(diff_J, Num(0))

\* line 128: radius = math.sqrt(diff_J**2 + Jxy_c**2)
Radius(diff_J, Jxy_c) == RootSumSq(diff_J, Jxy_c)

\* line 130: J_max = avg_J + radius
J_max(avg_J, radius) == PlusRoot(avg_J, radius)

\* line 131: J_min = avg_J - radius
J_min(avg_J, radius) == MinusRoot(avg_J, radius)

\* line 134
NearEqualAngle(Jxy_c) ==
  IF Lt(Abs(Jxy_c), Tol) THEN ExactAngle(Num(0))
  ELSE ExactAngle(Div(pi, Num(4)))

\* lines 133-136
theta_rad(Jcx_c, Jcy_c, Jxy_c) ==
  IF Lt(Abs(Sub(Jcx_c, Jcy_c)), Tol) THEN NearEqualAngle(Jxy_c)
  ELSE ScaleAngle(Dec(5, 1),
                  atan2(Neg(Mul(Num(2), Jxy_c)), Sub(Jcx_c, Jcy_c)))

\* list(zip(xs, ys))
Zip(xs, ys) == [i \in 1..Len(xs) |-> <<xs[i], ys[i]>>]

\* lines 120-123 and 145
Extreme(xs, ys) ==
  [cx_pos |-> MaxNum(xs, 1, Len(xs)), cx_neg |-> MinNum(xs, 1, Len(xs)),
   cy_pos |-> MaxNum(ys, 1, Len(ys)), cy_neg |-> MinNum(ys, 1, Len(ys))]

\* lines 128-146
Principal(p1, x_bar, y_bar, d, p2, avg_J, radius) ==
  [bo |-> p1.total_length,
   Ac |-> Mul(p1.total_length, d),
   Centroid |-> <<x_bar, y_bar>>,
   Jcx |-> p2.Jcx_c, Jcy |-> p2.Jcy_c, Jxy |-> p2.Jxy_c,
   J_major |-> J_max(avg_J, radius),
   J_minor |-> J_min(avg_J, radius),
   theta_deg |-> degrees(theta_rad(p2.Jcx_c, p2.Jcy_c, p2.Jxy_c)),
   segments |-> p1.segments,
   extreme |-> Extreme(p2.x_shifted_all, p2.y_shifted_all),
   points_shifted |-> Zip(p2.x_shifted_all, p2.y_shifted_all)]

\* lines 126-128
Inertia(p1, x_bar, y_bar, d, p2) ==
  Principal(p1, x_bar, y_bar, d, p2,
            Div(Add(p2.Jcx_c, p2.Jcy_c), Num(2)),
            Radius(Div(Sub(p2.Jcx_c, p2.Jcy_c), Num(2)), p2.Jxy_c))

\* lines 90-117
Centroidal(p1, x_bar, y_bar, d) ==
  Inertia(p1, x_bar, y_bar, d,
          InertiaLoop(p1.segments, 1, Len(p1.segments), x_bar, y_bar, d,
                      [x_shifted_all |-> <<>>, y_shifted_all |-> <<>>,
                       Jcx_c |-> Num(0), Jcy_c |-> Num(0), Jxy_c |-> Num(0)]))

\* lines 84-87
Located(p1, d) ==
  IF IsZero(p1.total_length) THEN None
  ELSE Centroidal(p1, Div(p1.sum_my, p1.total_length),
                  Div(p1.sum_mx, p1.total_length), d)

calculate_section_properties(points, d) ==
  Located(PerimeterLoop(points, 1, Len(points) - 1,
                        [total_length |-> Num(0), sum_mx |-> Num(0),
                         sum_my |-> Num(0), segments |-> <<>>]), d)

(***************************************************************************)
(* 2. SHAPE GENERATION LOGIC: generate_critical_section.                   *)
(***************************************************************************)
\* a faulty Interior list that does not repeat the first vertex
UnclosedInterior(hx, hy, X_far, Y_far) ==
  << <<Neg(hx), Y_far>>, <<hx, Y_far>>, <<X_far, hy>>, <<X_far, Neg(hy)>>,
     <<hx, Neg(Y_far)>>, <<Neg(hx), Neg(Y_far)>>, <<Neg(X_far), Neg(hy)>>,
     <<Neg(X_far), hy>> >>

\* lines 160-163
InteriorPoints(hx, hy, X_far, Y_far) ==
  << <<Neg(hx), Y_far>>, <<hx, Y_far>>, <<X_far, hy>>, <<X_far, Neg(hy)>>,
     <<hx, Neg(Y_far)>>, <<Neg(hx), Neg(Y_far)>>, <<Neg(X_far), Neg(hy)>>,
     <<Neg(X_far), hy>>, <<Neg(hx), Y_far>> >>

\* a faulty Edge list that closes the chain along the free face
ClosedEdge(hx, hy, X_far, Y_far) ==
  << <<Neg(hx), Y_far>>, <<hx, Y_far>>, <<X_far, hy>>, <<X_far, Neg(hy)>>,
     <<hx, Neg(Y_far)>>, <<Neg(hx), Neg(Y_far)>>, <<Neg(hx), Y_far>> >>

\* lines 165-168
EdgePoints(hx, hy, X_far, Y_far) ==
  << <<Neg(hx), Y_far>>, <<hx, Y_far>>, <<X_far, hy>>, <<X_far, Neg(hy)>>,
     <<hx, Neg(Y_far)>>, <<Neg(hx), Neg(Y_far)>> >>

\* a faulty Corner list that keeps the right face only
CornerSingleLeg(hx, hy, X_far, Y_far) ==
  << <<X_far, hy>>, <<X_far, Neg(hy)>> >>

\* line 170
CornerPoints(hx, hy, X_far, Y_far) ==
  << <<X_far, hy>>, <<X_far, Neg(hy)>>, <<hx, Neg(Y_far)>>,
     <<Neg(hx), Neg(Y_far)>> >>

\* lines 157-172
Shape(hx, hy, X_far, Y_far, col_type) ==
  CASE col_type = "Interior" -> InteriorPoints(hx, hy, X_far, Y_far)
    [] col_type = "Edge (Left Free)" -> EdgePoints(hx, hy, X_far, Y_far)
    [] col_type = "Corner (Top-Left Free)" -> CornerPoints(hx, hy, X_far, Y_far)
    [] OTHER -> <<>>

\* lines 155-156
Projected(hx, hy, dist, col_type) ==
  Shape(hx, hy, Add(hx, dist), Add(hy, dist), col_type)

\* faulty lines 153-154 that take the full widths for the half widths
generate_from_full_widths(Cx, Cy, dist, col_type) ==
  Projected(Cx, Cy, dist, col_type)

generate_critical_section(Cx, Cy, dist, col_type) ==
  Projected(Div(Cx, Num(2)), Div(Cy, Num(2)), dist, col_type)

(***************************************************************************)
(* 0. SESSION STATE & CALLBACKS, 3. UI SETUP.                              *)
(* Streamlit runs the script from the top on every interaction; pc is the  *)
(* position of the run: "idle" (the run is over, the page waits for the    *)
(* user), "sidebar" (lines 183-220), "generate" (line 223), "calculate"    *)
(* (line 224), "render" (lines 226-235).  unit_sys only selects the unit   *)
(* labels and is left out.                                                 *)
(***************************************************************************)
VARIABLES session_state, col_type, Cx, Cy, d, dist_val, points, res,
          is_unsymmetric, pc

vars == <<session_state, col_type, Cx, Cy, d, dist_val, points, res,
          is_unsymmetric, pc>>

\* a script variable the current run has not assigned yet
Unassigned == [unassigned |-> TRUE]

\* lines 12-19
defaults ==
  [col_type |-> "Interior", Cx |-> Num(12), Cy |-> Num(20), d |-> Dec(562, 2),
   calc_mode |-> "Manual Distance (Trial)", dist_manual |-> Dec(253, 1),
   so |-> Dec(225, 2), s |-> Dec(275, 2), n |-> 9]

\* lines 24-54
load_example(ss, ex_id) ==
  CASE ex_id = "D1" ->
         [ss EXCEPT !.col_type = "Interior", !.Cx = Num(12), !.Cy = Num(20),
                    !.d = Dec(562, 2), !.calc_mode = "Manual Distance (Trial)",
                    !.dist_manual = Dec(253, 1)]
    [] ex_id = "D2" ->
         [ss EXCEPT !.col_type = "Edge (Left Free)", !.Cx = Num(18),
                    !.Cy = Num(18), !.d = Dec(562, 2),
                    !.calc_mode = "From Stud Layout", !.so = Dec(225, 2),
                    !.s = Dec(275, 2), !.n = 9]
    [] ex_id = "D3" ->
         [ss EXCEPT !.col_type = "Corner (Top-Left Free)", !.Cx = Num(20),
                    !.Cy = Num(20), !.d = Dec(562, 2),
                    !.calc_mode = "From Stud Layout", !.so = Dec(225, 2),
                    !.s = Dec(25, 1), !.n = 7]
    [] OTHER -> ss

\* the values the user types into the widgets
ColumnTypes == {"Interior", "Edge (Left Free)", "Corner (Top-Left Free)"}

CalcModes == {"Manual Distance (Trial)", "From Stud Layout"}

CxValues == {Num(20)}

CyValues == {Num(20)}

dValues == {Num(6)}

dist_manualValues == {Dec(253, 1)}

soValues == {Dec(225, 2)}

sValues == {Dec(25, 1)}

\* line 218: min_value=2
MinLines == 2

MaxLines == 2

nValues == MinLines..MaxLines

\* a new run of the script starts with no script variable assigned
Rerun(ss) ==
  /\ pc = "idle"
  /\ session_state' = ss
  /\ col_type' = Unassigned /\ Cx' = Unassigned /\ Cy' = Unassigned
  /\ d' = Unassigned /\ dist_val' = Unassigned /\ points' = Unassigned
  /\ res' = Unassigned /\ is_unsymmetric' = Unassigned
  /\ pc' = "sidebar"

\* lines 186-188: one of the three buttons was clicked
LoadExample == \E ex_id \in {"D1", "D2", "D3"} :
  Rerun(load_example(session_state, ex_id))

\* line 201
SetColType == \E v \in ColumnTypes : Rerun([session_state EXCEPT !.col_type = v])

\* line 204
SetCx == \E v \in CxValues : Rerun([session_state EXCEPT !.Cx = v])

\* line 205
SetCy == \E v \in CyValues : Rerun([session_state EXCEPT !.Cy = v])

\* line 206
SetD == \E v \in dValues : Rerun([session_state EXCEPT !.d = v])

\* line 209
SetCalcMode == \E v \in CalcModes : Rerun([session_state EXCEPT !.calc_mode = v])

\* line 213: the widget exists in the manual mode only
SetDistManual == \E v \in dist_manualValues :
  /\ session_state.calc_mode = "Manual Distance (Trial)"
  /\ Rerun([session_state EXCEPT !.dist_manual = v])

\* line 216: the widget exists in the stud-layout mode only
SetSo == \E v \in soValues :
  /\ session_state.calc_mode # "Manual Distance (Trial)"
  /\ Rerun([session_state EXCEPT !.so = v])

\* line 217
SetS == \E v \in sValues :
  /\ session_state.calc_mode # "Manual Distance (Trial)"
  /\ Rerun([session_state EXCEPT !.s = v])

\* line 218
SetN == \E v \in nValues :
  /\ session_state.calc_mode # "Manual Distance (Trial)"
  /\ Rerun([session_state EXCEPT !.n = v])

\* line 219: so + (n-1)*s + (d/2)
StudDistance(so, s, n, dd) == Add(Add(so, Mul(Num(n - 1), s)), Div(dd, Num(2)))

\* lines 201-219: the widgets hand their session values to the script
Sidebar ==
  /\ pc = "sidebar"
  /\ col_type' = session_state.col_type
  /\ Cx' = session_state.Cx
  /\ Cy' = session_state.Cy
  /\ d' = session_state.d
  /\ dist_val' = IF session_state.calc_mode = "Manual Distance (Trial)"
                 THEN session_state.dist_manual
                 ELSE StudDistance(session_state.so, session_state.s,
                                   session_state.n, session_state.d)
  /\ pc' = "generate"
  /\ UNCHANGED <<session_state, points, res, is_unsymmetric>>

\* line 223
Generate ==
  /\ pc = "generate"
  /\ points' = generate_critical_section(Cx, Cy, dist_val, col_type)
  /\ pc' = "calculate"
  /\ UNCHANGED <<session_state, col_type, Cx, Cy, d, dist_val, res,
                 is_unsymmetric>>

\* line 224
Calculate ==
  /\ pc = "calculate"
  /\ res' = calculate_section_properties(points, d)
  /\ pc' = "render"
  /\ UNCHANGED <<session_state, col_type, Cx, Cy, d, dist_val, points,
                 is_unsymmetric>>

\* line 235: abs(res['Jxy']) > 1.0
IsUnsymmetric(r) == Lt(Num(1), Abs(r.Jxy))

\* lines 226-235: "if res:" is false for None only
Render ==
  /\ pc = "render"
  /\ is_unsymmetric' = IF res = None THEN Unassigned ELSE IsUnsymmetric(res)
  /\ pc' = "idle"
  /\ UNCHANGED <<session_state, col_type, Cx, Cy, d, dist_val, points, res>>

\* line 57, then the first run of the script
Init ==
  /\ session_state = defaults
  /\ col_type = Unassigned /\ Cx = Unassigned /\ Cy = Unassigned
  /\ d = Unassigned /\ dist_val = Unassigned /\ points = Unassigned
  /\ res = Unassigned /\ is_unsymmetric = Unassigned
  /\ pc = "sidebar"

Next ==
  \/ LoadExample
  \/ SetColType
  \/ SetCx
  \/ SetCy
  \/ SetD
  \/ SetCalcMode
  \/ SetDistManual
  \/ SetSo
  \/ SetS
  \/ SetN
  \/ Sidebar
  \/ Generate
  \/ Calculate
  \/ Render

Spec == Init /\ [][Next]_vars

(***************************************************************************)
(* The main calculation (lines 223-235) on inputs other than the widgets': *)
(* calculate_section_properties on any polyline of lattice points whose    *)
(* segments are horizontal, vertical or at 45 degrees (empty, single-point *)
(* and repeated-point polylines included), and generate_critical_section   *)
(* on zero and non-zero dimensions and on any topology tag, a tag it does  *)
(* not know included.                                                      *)
(***************************************************************************)
GridX == 2

GridY == 1

MaxPoints == 4

Grid == (0..GridX) \X (0..GridY)

Straight(p, q) ==
  \/ p[1] = q[1]
  \/ p[2] = q[2]
  \/ p[1] - q[1] = p[2] - q[2]
  \/ p[1] - q[1] = q[2] - p[2]

Polylines ==
  {ps \in UNION {[1..k -> Grid] : k \in 0..MaxPoints} :
     \A i \in 1..(Len(ps) - 1) : Straight(ps[i], ps[i + 1])}

ToPoints(ps) == [i \in 1..Len(ps) |-> <<Num(ps[i][1]), Num(ps[i][2])>>]

Widths == {Num(0), Num(2), Num(3)}

Offsets == {Num(0), Num(1)}

Depths == {Num(0), Num(1), Dec(562, 2)}

\* a topology tag generate_critical_section has no branch for
OtherType == "Circular"

InitCalc ==
  /\ session_state = defaults
  /\ res = Unassigned /\ is_unsymmetric = Unassigned
  /\ d \in Depths
  /\ \/ /\ pc = "calculate"
        /\ col_type = Unassigned /\ Cx = Unassigned /\ Cy = Unassigned
        /\ dist_val = Unassigned
        /\ \E ps \in Polylines : points = ToPoints(ps)
     \/ /\ pc = "generate"
        /\ col_type \in ColumnTypes \cup {OtherType}
        /\ Cx \in Widths
        /\ Cy \in Widths
        /\ dist_val \in Offsets
        /\ points = Unassigned

NextCalc ==
  \/ Generate
  \/ Calculate
  \/ Render

SpecCalc == InitCalc /\ [][NextCalc]_vars

(***************************************************************************)
(* Properties.  A run is at pc = "calculate" once the generator has        *)
(* returned points, and at pc = "render" once the calculator has returned  *)
(* res.  The generator's arguments are assigned in a run that called it.   *)
(***************************************************************************)
SamePoint(p, q) == Eq(p[1], q[1]) /\ Eq(p[2], q[2])

IsPoint(p, x, y) == Eq(p[1], x) /\ Eq(p[2], y)

\* every segment of pts has length zero
AllCoincident(pts) ==
  \A i \in 1..(Len(pts) - 1) : SamePoint(pts[i], pts[i + 1])

\* the keys of the dictionary of lines 138-147
ResultFields ==
  {"bo", "Ac", "Centroid", "Jcx", "Jcy", "Jxy", "J_major", "J_minor",
   "theta_deg", "segments", "extreme", "points_shifted"}

\* C1: calculate_section_properties returns None exactly when every segment
\* of the polyline has length zero (the empty polyline, a single point,
\* coincident points, the empty list generated for an unknown topology tag);
\* otherwise it returns the complete record, with a positive perimeter.
C1_FailsExactlyOnZeroLength ==
  pc = "render" =>
    /\ res = None <=> AllCoincident(points)
    /\ (Cx # Unassigned /\ col_type = OtherType) => res = None
    /\ res # None => DOMAIN res = ResultFields /\ Sign(res.bo) > 0

\* a polyline of several coincident points has failed
C1_Witness == pc = "render" /\ res = None /\ Len(points) >= 2

\* s without its element i
RemoveAt(s, i) == SubSeq(s, 1, i - 1) \o SubSeq(s, i + 1, Len(s))

SameSurd(s, t) ==
  /\ s.sg = t.sg
  /\ Eq(s.base, t.base)
  /\ Eq(s.root.u, t.root.u)
  /\ Eq(s.root.v, t.root.v)

SameAngle(a, b) ==
  /\ a.exact = b.exact
  /\ IF a.exact THEN Eq(a.val, b.val)
     ELSE Eq(a.scale, b.scale) /\ Eq(a.y, b.y) /\ Eq(a.x, b.x)

SameSegment(s, t) ==
  /\ SamePoint(s.p1, t.p1)
  /\ SamePoint(s.p2, t.p2)
  /\ Eq(s.l, t.l)
  /\ Eq(s.xm, t.xm)
  /\ Eq(s.ym, t.ym)

SameExtreme(e, f) ==
  /\ Eq(e.cx_pos, f.cx_pos)
  /\ Eq(e.cx_neg, f.cx_neg)
  /\ Eq(e.cy_pos, f.cy_pos)
  /\ Eq(e.cy_neg, f.cy_neg)

\* two returned values are equal in every field
SameResult(r, q) ==
  IF r = None \/ q = None THEN r = q
  ELSE /\ Eq(r.bo, q.bo)
       /\ Eq(r.Ac, q.Ac)
       /\ SamePoint(r.Centroid, q.Centroid)
       /\ Eq(r.Jcx, q.Jcx)
       /\ Eq(r.Jcy, q.Jcy)
       /\ Eq(r.Jxy, q.Jxy)
       /\ SameSurd(r.J_major, q.J_major)
       /\ SameSurd(r.J_minor, q.J_minor)
       /\ SameAngle(r.theta_deg, q.theta_deg)
       /\ SameExtreme(r.extreme, q.extreme)
       /\ Len(r.segments) = Len(q.segments)
       /\ \A i \in 1..Len(r.segments) : SameSegment(r.segments[i], q.segments[i])
       /\ Len(r.points_shifted) = Len(q.points_shifted)
       /\ \A i \in 1..Len(r.points_shifted) :
            SamePoint(r.points_shifted[i], q.points_shifted[i])

\* C4: for a polyline with two coincident adjacent points, at the start, in
\* the middle or at the end, the returned value equals in every field the
\* value returned for the polyline without the repeated point, at the same
\* depth.
C4_DuplicatePointIgnored ==
  pc = "render" =>
    \A i \in 1..(Len(points) - 1) :
      SamePoint(points[i], points[i + 1]) =>
        SameResult(res, calculate_section_properties(RemoveAt(points, i + 1), d))

\* a result was returned for a polyline with a repeated point in its middle
C4_Witness ==
  /\ pc = "render"
  /\ res # None
  /\ \E i \in 2..(Len(points) - 2) : SamePoint(points[i], points[i + 1])

\* c is within the extent of the coordinate k of pts
Within(pts, k, c) ==
  /\ \E i \in 1..Len(pts) : Leq(pts[i][k], c)
  /\ \E i \in 1..Len(pts) : Leq(c, pts[i][k])

SumSq(r) == Add(Sqr(r.u), Sqr(r.v))

\* x <= root
AtMostRoot(x, r) == Sign(x) <= 0 \/ Leq(Sqr(x), SumSq(r))

\* root <= x
AtLeastRoot(x, r) == Sign(x) >= 0 /\ Leq(SumSq(r), Sqr(x))

\* x = root
IsRoot(x, r) == Sign(x) >= 0 /\ Eq(Sqr(x), SumSq(r))

\* x <= the surd s
LeqSurd(x, s) ==
  IF s.sg > 0 THEN AtMostRoot(Sub(x, s.base), s.root)
  ELSE AtLeastRoot(Sub(s.base, x), s.root)

\* the surd s <= x
SurdLeq(s, x) ==
  IF s.sg > 0 THEN AtLeastRoot(Sub(x, s.base), s.root)
  ELSE AtMostRoot(Sub(s.base, x), s.root)

\* the surd s = x
SurdIs(s, x) ==
  IF s.sg > 0 THEN IsRoot(Sub(x, s.base), s.root)
  ELSE IsRoot(Sub(s.base, x), s.root)

\* the moment about the centroidal X axis rotated by t, for c = cos(t) and
\* s = sin(t): Jcx*c^2 + Jcy*s^2 - Jxy*sin(2t)
Rotated(Jcx, Jcy, Jxy, c, s) ==
  Sub(Add(Mul(Jcx, Sqr(c)), Mul(Jcy, Sqr(s))), Mul(Jxy, Mul(Mul(Num(2), s), c)))

\* <<cos(t), sin(t)>> for t = 0, 36.87, 45, 90, 126.87, 135 and 180 degrees
Directions ==
  << <<Num(1), Num(0)>>,
     <<Dec(8, 1), Dec(6, 1)>>,
     <<TimesSqrt2(Dec(5, 1)), TimesSqrt2(Dec(5, 1))>>,
     <<Num(0), Num(1)>>,
     <<Dec(-6, 1), Dec(8, 1)>>,
     <<TimesSqrt2(Dec(-5, 1)), TimesSqrt2(Dec(5, 1))>>,
     <<Num(-1), Num(0)>> >>

Bracketed(r, J) == SurdLeq(r.J_minor, J) /\ LeqSurd(J, r.J_major)

AngleIs(a, n) == a.exact /\ Eq(a.val, Num(n))

\* {J_major, J_minor} = {Jcx, Jcy}
PrincipalAreAxisMoments(r) ==
  \/ SurdIs(r.J_major, r.Jcx) /\ SurdIs(r.J_minor, r.Jcy)
  \/ SurdIs(r.J_major, r.Jcy) /\ SurdIs(r.J_minor, r.Jcx)

\* a record of a fully symmetric section: Jxy = 0 and Jcx # Jcy
SymmetricSection ==
  /\ pc = "render"
  /\ res # None
  /\ IsZero(res.Jxy)
  /\ ~Eq(res.Jcx, res.Jcy)

\* C3 as the specification states it: for Jxy = 0 and Jcx # Jcy, whichever
\* is larger, theta_deg is 0 and {J_major, J_minor} = {Jcx, Jcy}.
C3_SymmetricAngleIsZero ==
  SymmetricSection =>
    AngleIs(res.theta_deg, 0) /\ PrincipalAreAxisMoments(res)

\* C3, amended: for Jxy = 0 and Jcx # Jcy, {J_major, J_minor} = {Jcx, Jcy};
\* theta_deg is 0 when Jcx > Jcy (or the two differ by less than 1e-6) and
\* is -90 or 90 when Jcx < Jcy.
C3_SymmetricAngleIsZeroOrRight ==
  SymmetricSection =>
    /\ PrincipalAreAxisMoments(res)
    /\ IF Lt(res.Jcy, res.Jcx) \/ Lt(Abs(Sub(res.Jcx, res.Jcy)), Tol)
       THEN AngleIs(res.theta_deg, 0)
       ELSE AngleIs(res.theta_deg, -90) \/ AngleIs(res.theta_deg, 90)

\* a symmetric section with Jcx < Jcy, reported at a right angle
C3_Witness ==
  /\ SymmetricSection
  /\ Lt(res.Jcx, res.Jcy)
  /\ AngleIs(res.theta_deg, -90)

\* <<cos(2t), sin(2t)>> for the angles of t degrees that the angle rule
\* gives exactly
DoubleAngle(t) ==
  CASE Eq(t, Num(0)) -> <<Num(1), Num(0)>>
    [] Eq(t, Num(45)) -> <<Num(0), Num(1)>>
    [] Eq(t, Num(-45)) -> <<Num(0), Num(-1)>>
    [] Eq(t, Num(90)) \/ Eq(t, Num(-90)) -> <<Num(-1), Num(0)>>

\* J(t) - avg_J = diff_J*cos(2t) - Jxy*sin(2t), times h when cs is
\* <<h*cos(2t), h*sin(2t)>>
Excess(r, cs) ==
  Sub(Mul(Div(Sub(r.Jcx, r.Jcy), Num(2)), cs[1]), Mul(r.Jxy, cs[2]))

\* n = radius * sqrt(x^2 + y^2)
IsScaledRoot(n, r, x, y) ==
  Sign(n) >= 0 /\ Eq(Sqr(n), Mul(SumSq(r), Add(Sqr(x), Sqr(y))))

\* The moment about the X axis rotated by theta_deg is J_major = avg_J +
\* radius, that is J(theta) - avg_J = radius (the moment about the
\* perpendicular axis, avg_J - (J(theta) - avg_J), is then J_minor).  For
\* theta = 0.5*atan2(y, x) in degrees, cos(2*theta) = x/h and sin(2*theta) =
\* y/h with h = sqrt(x^2 + y^2).
ThetaIsMajorAxis(r, a) ==
  IF a.exact
  THEN IsRoot(Excess(r, DoubleAngle(a.val)), r.J_major.root)
  ELSE /\ Eq(a.scale, Num(90))
       /\ IsScaledRoot(Excess(r, <<a.x, a.y>>), r.J_major.root, a.x, a.y)

\* C10: in every returned record theta_deg is the direction of the major
\* principal axis, in the three branches of the angle rule: the moment
\* about the X axis rotated by theta_deg equals J_major (and the moment
\* about the perpendicular axis equals J_minor).
C10_ThetaIsMajorAxis ==
  (pc = "render" /\ res # None) => ThetaIsMajorAxis(res, res.theta_deg)

\* the run has called generate_critical_section for the topology tag, on
\* positive column dimensions
GeneratedFor(tag) ==
  /\ pc # "generate"
  /\ Cx # Unassigned
  /\ col_type = tag
  /\ Sign(Cx) > 0
  /\ Sign(Cy) > 0

RECURSIVE TwiceArea(_, _)
\* twice the shoelace signed area of the closed polyline pts, from its
\* segment i on: positive for a counter-clockwise traversal
TwiceArea(pts, i) ==
  IF i >= Len(pts) THEN Num(0)
  ELSE Add(Sub(Mul(pts[i][1], pts[i + 1][2]), Mul(pts[i + 1][1], pts[i][2])),
           TwiceArea(pts, i + 1))

\* the octagon through the four projected faces: top edge, right edge,
\* bottom edge, left edge, and the first vertex again
Octagon(pts, hx, hy, X_far, Y_far) ==
  /\ Len(pts) = 9
  /\ IsPoint(pts[1], Neg(hx), Y_far) /\ IsPoint(pts[2], hx, Y_far)
  /\ IsPoint(pts[3], X_far, hy) /\ IsPoint(pts[4], X_far, Neg(hy))
  /\ IsPoint(pts[5], hx, Neg(Y_far)) /\ IsPoint(pts[6], Neg(hx), Neg(Y_far))
  /\ IsPoint(pts[7], Neg(X_far), Neg(hy)) /\ IsPoint(pts[8], Neg(X_far), hy)
  /\ SamePoint(pts[9], pts[1])
  /\ \A i \in 1..8 : \A j \in (i + 1)..8 : ~SamePoint(pts[i], pts[j])

OctagonAround(pts, hx, hy, dist) ==
  Octagon(pts, hx, hy, Add(hx, dist), Add(hy, dist))

\* C6 as the specification states it: for the Interior topology, positive
\* column dimensions and a positive offset, the generator returns 9 points,
\* 8 distinct vertices then the first one again, in the order top edge,
\* right edge, bottom edge, left edge, with the faces at X_far = hx + offset
\* and Y_far = hy + offset, and the traversal is counter-clockwise (positive
\* shoelace area).
C6_InteriorCounterClockwise ==
  (GeneratedFor("Interior") /\ Sign(dist_val) > 0) =>
    /\ OctagonAround(points, Div(Cx, Num(2)), Div(Cy, Num(2)), dist_val)
    /\ Sign(TwiceArea(points, 1)) > 0

\* C6, amended: the same 9 points in the same order, and the traversal is
\* clockwise (negative shoelace area).
C6_InteriorClockwise ==
  (GeneratedFor("Interior") /\ Sign(dist_val) > 0) =>
    /\ OctagonAround(points, Div(Cx, Num(2)), Div(Cy, Num(2)), dist_val)
    /\ Sign(TwiceArea(points, 1)) < 0

\* the generator has returned an Interior octagon
C6_Witness ==
  /\ GeneratedFor("Interior")
  /\ Sign(dist_val) > 0
  /\ pc = "calculate"
  /\ Len(points) = 9

\* no segment of segs joins a and b
NotJoined(segs, a, b) ==
  \A i \in 1..Len(segs) :
    /\ ~(SamePoint(segs[i].p1, a) /\ SamePoint(segs[i].p2, b))
    /\ ~(SamePoint(segs[i].p1, b) /\ SamePoint(segs[i].p2, a))

\* the open chain of 6 points from (-hx, Y_far) to (-hx, -Y_far)
OpenChain(pts, hx, Y_far) ==
  /\ Len(pts) = 6
  /\ IsPoint(pts[1], Neg(hx), Y_far)
  /\ IsPoint(pts[6], Neg(hx), Neg(Y_far))
  /\ ~SamePoint(pts[1], pts[6])

\* C7: for the Edge (Left Free) topology, positive column dimensions, an
\* offset >= 0 and a positive depth, the polyline is an open chain of 6
\* points from (-hx, +Y_far) to (-hx, -Y_far) with no segment joining the
\* two, and the centroid has x_bar > 0 and y_bar = 0.
C7_EdgeOpenChain ==
  (/\ GeneratedFor("Edge (Left Free)")
   /\ pc = "render"
   /\ Sign(dist_val) >= 0
   /\ Sign(d) > 0) =>
    /\ OpenChain(points, Div(Cx, Num(2)), Add(Div(Cy, Num(2)), dist_val))
    /\ res # None
    /\ NotJoined(res.segments, points[1], points[6])
    /\ Sign(res.Centroid[1]) > 0
    /\ IsZero(res.Centroid[2])

\* a record was returned for an Edge section
C7_Witness ==
  /\ GeneratedFor("Edge (Left Free)")
  /\ pc = "render"
  /\ Sign(d) > 0
  /\ res # None
  /\ Sign(res.Centroid[1]) > 0

\* the calculator has returned for a Corner section of positive dimensions,
\* an offset >= 0 and a positive depth; at pc = "idle" line 235 has
\* classified the section
CornerSection ==
  /\ GeneratedFor("Corner (Top-Left Free)")
  /\ pc \in {"render", "idle"}
  /\ Sign(dist_val) >= 0
  /\ Sign(d) > 0

\* C8 as the specification states it: for every Corner section of positive
\* dimensions, an offset >= 0 and a positive depth, Jxy is not zero and the
\* test abs(Jxy) > 1.0 classifies the section as unsymmetric.
C8_CornerUnsymmetric ==
  CornerSection =>
    /\ res # None
    /\ ~IsZero(res.Jxy)
    /\ pc = "idle" => is_unsymmetric = TRUE

\* C8, amended: Jxy is not zero (it is positive), and the section is
\* classified as unsymmetric exactly when abs(Jxy) > 1.0, which a small
\* section does not reach.
C8_CornerProductOfInertia ==
  CornerSection =>
    /\ res # None
    /\ Sign(res.Jxy) > 0
    /\ pc = "idle" => is_unsymmetric = Lt(Num(1), res.Jxy)

\* a Corner section that is not classified as unsymmetric
C8_Witness ==
  /\ CornerSection
  /\ pc = "idle"
  /\ res # None
  /\ Sign(res.Jxy) > 0
  /\ is_unsymmetric = FALSE

\* abs(x - ref) <= tol
Approx(x, ref, tol) == Leq(Abs(Sub(x, ref)), tol)

\* the Interior reference case: Cx = 12, Cy = 20, offset 25.3, depth 5.62
ReferenceCase ==
  /\ pc = "render"
  /\ col_type = "Interior"
  /\ Eq(Cx, Num(12))
  /\ Eq(Cy, Num(20))
  /\ Eq(dist_val, Dec(253, 1))
  /\ Eq(d, Dec(562, 2))

\* a centroid of (0, 0) and an angle of 0 degrees
CentredAndUnrotated(r) ==
  /\ IsZero(r.Centroid[1])
  /\ IsZero(r.Centroid[2])
  /\ AngleIs(r.theta_deg, 0)

\* C5 as the specification states it: the Interior reference case yields
\* bo = 131.72 and Ac = 740.3 to within 0.5 %, Ac = bo * depth, the centroid
\* (0, 0) and the angle 0.
C5_ReferencePerimeter131 ==
  ReferenceCase =>
    /\ res # None
    /\ Approx(res.bo, Dec(13172, 2), Mul(Dec(5, 3), Dec(13172, 2)))
    /\ Approx(res.Ac, Dec(7403, 1), Mul(Dec(5, 3), Dec(7403, 1)))
    /\ Eq(res.Ac, Mul(res.bo, d))
    /\ CentredAndUnrotated(res)

\* C5, amended: the Interior reference case yields bo = 64 + 101.2*sqrt(2),
\* which is 207.12 to two decimals, Ac = bo * depth, which is 1164.01 to two
\* decimals, the centroid (0, 0) and the angle 0.
C5_ReferencePerimeter207 ==
  ReferenceCase =>
    /\ res # None
    /\ Eq(res.bo, Add(Num(64), TimesSqrt2(Dec(1012, 1))))
    /\ Approx(res.bo, Dec(20712, 2), Dec(5, 3))
    /\ Approx(res.Ac, Dec(116401, 2), Dec(5, 3))
    /\ Eq(res.Ac, Mul(res.bo, d))
    /\ CentredAndUnrotated(res)

\* the reference case has been calculated
C5_Witness == ReferenceCase /\ res # None /\ Sign(res.bo) > 0

=============================================================================
